---------------------------- MODULE Spec2Model ----------------------------
(***************************************************************************)
(* Model of setup.py of shellcheck-py: the build step fetch_binaries       *)
(* (get_download_url -> download -> extract -> save_executable) and the    *)
(* install step install_shellcheck (copy_tree), run by one or more         *)
(* setup.py processes that share one filesystem.                           *)
(*                                                                         *)
(* Python strings that the code takes apart (endswith, in, basename) are   *)
(* sequences of one-character strings.  Strings that are only compared     *)
(* (platform names, digests, staged file names) are TLA+ strings.          *)
(***************************************************************************)
EXTENDS Integers, Sequences, FiniteSets, TLC

\* ------------------------------------------------------------------ bounds
\* Builds (setup.py invocations) started in one behaviour.
MaxRuns == 2
\* int(time.time()) returns one of 0..MaxClock.
MaxClock == 1
\* Longest archive, in entries, that extract is applied to as a function.
MaxEntries == 2

\* The setup.py processes that can be alive at once.
Procs == {1, 2}

\* --------------------------------------------------------- string helpers
\* str.endswith
EndsWith(s, suf) ==
    /\ Len(s) >= Len(suf)
    /\ SubSeq(s, Len(s) - Len(suf) + 1, Len(s)) = suf

\* the `in` operator on strings
Contains(s, sub) ==
    \E i \in 1..(Len(s) - Len(sub) + 1) : SubSeq(s, i, i + Len(sub) - 1) = sub

\* os.path.basename: what follows the last "/"
Basename(s) ==
    LET slashes == {i \in 1..Len(s) : s[i] = "/"}
        last == IF slashes = {} THEN 0
                ELSE CHOOSE i \in slashes : \A j \in slashes : j <= i
    IN SubSeq(s, last + 1, Len(s))

\* bitwise | and & on non-negative integers
RECURSIVE BitOr(_, _)
BitOr(a, b) ==
    IF a = 0 THEN b
    ELSE IF b = 0 THEN a
    ELSE (IF a % 2 = 1 \/ b % 2 = 1 THEN 1 ELSE 0)
         + 2 * BitOr(a \div 2, b \div 2)

RECURSIVE BitAnd(_, _)
BitAnd(a, b) ==
    IF a = 0 \/ b = 0 THEN 0
    ELSE (IF a % 2 = 1 /\ b % 2 = 1 THEN 1 ELSE 0)
         + 2 * BitAnd(a \div 2, b \div 2)

\* ------------------------------------------------------- string constants
URL_PREFIX ==
    <<"h", "t", "t", "p", "s", ":", "/", "/", "g", "i", "t", "h", "u", "b",
      ".", "c", "o", "m", "/", "k", "o", "a", "l", "a", "m", "a", "n", "/",
      "s", "h", "e", "l", "l", "c", "h", "e", "c", "k", "/", "r", "e", "l",
      "e", "a", "s", "e", "s", "/", "d", "o", "w", "n", "l", "o", "a", "d",
      "/">>

SHELLCHECK_VERSION == <<"0", ".", "8", ".", "0">>

PF_armv6hf ==
    <<"l", "i", "n", "u", "x", ".", "a", "r", "m", "v", "6", "h", "f", ".",
      "t", "a", "r", ".", "x", "z">>

PF_aarch64 ==
    <<"l", "i", "n", "u", "x", ".", "a", "a", "r", "c", "h", "6", "4", ".",
      "t", "a", "r", ".", "x", "z">>

PF_mips64 ==
    <<"h", "t", "t", "p", ":", "/", "/", "f", "t", "p", ".", "c", "n", ".",
      "d", "e", "b", "i", "a", "n", ".", "o", "r", "g", "/", "d", "e", "b",
      "i", "a", "n", "/", "p", "o", "o", "l", "/", "m", "a", "i", "n", "/",
      "s", "/", "s", "h", "e", "l", "l", "c", "h", "e", "c", "k", "/", "s",
      "h", "e", "l", "l", "c", "h", "e", "c", "k", "_", "0", ".", "8", ".",
      "0", "-", "2", "~", "b", "p", "o", "1", "1", "%", "2", "B", "1", "_",
      "m", "i", "p", "s", "6", "4", "e", "l", ".", "d", "e", "b">>

PF_x86_64 ==
    <<"l", "i", "n", "u", "x", ".", "x", "8", "6", "_", "6", "4", ".", "t",
      "a", "r", ".", "x", "z">>

PF_darwin ==
    <<"d", "a", "r", "w", "i", "n", ".", "x", "8", "6", "_", "6", "4", ".",
      "t", "a", "r", ".", "x", "z">>

PF_zip == <<"z", "i", "p">>

DOT_DEB == <<".", "d", "e", "b">>
DOT_TAR_DOT == <<".", "t", "a", "r", ".">>
DOT_ZIP == <<".", "z", "i", "p">>
DOT_EXE == <<".", "e", "x", "e">>
SHELLCHECK == <<"s", "h", "e", "l", "l", "c", "h", "e", "c", "k">>
\* 'usr/bin/shellcheck', the executable's path inside the unpacked package
USR_BIN_SHELLCHECK ==
    <<"u", "s", "r", "/", "b", "i", "n", "/">> \o SHELLCHECK

\* Entry names of the archives the model feeds to extract.
N_README == <<"R", "E", "A", "D", "M", "E">>
N_EXE == SHELLCHECK \o DOT_EXE

\* ---------------------------------------------------------- descriptors
SHA_armv6hf ==
    "17857c8a0a8f4001aa9638732991cbb6e85c4a410500b11e2e0a98d9858afca8"
SHA_aarch64 ==
    "9f47bbff5624babfa712eb9d64ece14c6c46327122d0c54983f627ae3a30a4ac"
SHA_x86_64 ==
    "ab6ee1b178f014d1b86d1e24da20d1139656c8b0ed34d2867fbb834dad02bf0a"
SHA_darwin ==
    "e065d4afb2620cc8c1d420a9b3e6243c84ff1a693c1ff0e38f279c8f31e86634"
SHA_zip ==
    "2a616cbb5b15aec8238f22c0d62dede1b6d155798adc45ff4d0206395a8a5833"

Descriptor(postfix, sha) == [postfix |-> postfix, sha256 |-> sha]

\* The dict literal, then the three alias assignments that follow it.
POSTFIX_SHA256 ==
    LET literal ==
            (<<"linux", "armv6hf">> :> Descriptor(PF_armv6hf, SHA_armv6hf))
         @@ (<<"linux", "aarch64">> :> Descriptor(PF_aarch64, SHA_aarch64))
         @@ (<<"linux", "mips64">> :> Descriptor(PF_mips64, ""))
         @@ (<<"linux", "x86_64">> :> Descriptor(PF_x86_64, SHA_x86_64))
         @@ (<<"darwin", "x86_64">> :> Descriptor(PF_darwin, SHA_darwin))
         @@ (<<"win32", "AMD64">> :> Descriptor(PF_zip, SHA_zip))
    IN     (<<"cygwin", "x86_64">> :> literal[<<"win32", "AMD64">>])
        @@ (<<"darwin", "arm64">> :> literal[<<"darwin", "x86_64">>])
        @@ (<<"linux", "armv7l">> :> literal[<<"linux", "armv6hf">>])
        @@ literal

\* (sys.platform, platform.machine()) of the machines a build runs on: the
\* keys of the table and one machine the table does not know.
Platforms == DOMAIN POSTFIX_SHA256 \cup {<<"linux", "riscv64">>}

get_download_url(platform) ==
    LET postfix == POSTFIX_SHA256[platform].postfix
        sha == POSTFIX_SHA256[platform].sha256
    IN IF sha # ""
       THEN <<URL_PREFIX \o <<"v">> \o SHELLCHECK_VERSION \o <<"/">>
                \o SHELLCHECK \o <<"-", "v">> \o SHELLCHECK_VERSION
                \o <<".">> \o postfix,
              sha>>
       ELSE <<postfix, sha>>


\* ------------------------------------------------- archives and digests
\* An archive member: its name, its kind ("file", "dir" or "link") and, for
\* a regular file, its bytes.
Entry(name, type, bytes) == [name |-> name, type |-> type, data |-> bytes]

\* A response body: a container format and its members in archive order.
\* "garbage" is a byte sequence that is no archive at all.
Body(fmt, entries) == [fmt |-> fmt, entries |-> entries]

NoBody == Body("none", <<>>)
NoData == "<none>"

N_TARBIN ==
    SHELLCHECK \o <<"-", "v">> \o SHELLCHECK_VERSION \o <<"/">> \o SHELLCHECK

\* What upstream publishes under each pinned postfix, and the mirror's deb.
ReleaseTar(bytes) ==
    Body("tar", <<Entry(N_README, "file", "readme"),
                  Entry(N_TARBIN, "file", bytes)>>)

ReleaseZip ==
    Body("zip", <<Entry(N_README, "file", "readme"),
                  Entry(N_EXE, "file", "pe-amd64")>>)

MirrorDeb ==
    Body("deb", <<Entry(USR_BIN_SHELLCHECK, "file", "elf-mips64el"),
                  Entry(N_README, "file", "readme")>>)

Release(postfix) ==
    CASE postfix = PF_armv6hf -> ReleaseTar("elf-armv6hf")
      [] postfix = PF_aarch64 -> ReleaseTar("elf-aarch64")
      [] postfix = PF_x86_64 -> ReleaseTar("elf-x86_64")
      [] postfix = PF_darwin -> ReleaseTar("macho-x86_64")
      [] postfix = PF_zip -> ReleaseZip
      [] postfix = PF_mips64 -> MirrorDeb

Postfixes == {POSTFIX_SHA256[k].postfix : k \in DOMAIN POSTFIX_SHA256}

\* Bodies a server (or whoever sits between) may answer with: the releases,
\* archives with a replaced executable, packages that lack the executable or
\* hold a directory in its place, and bytes that are no archive.
ServerBodies ==
    {Release(pf) : pf \in Postfixes}
    \cup {ReleaseTar("evil"),
          Body("deb", <<Entry(N_README, "file", "readme")>>),
          Body("deb", <<Entry(USR_BIN_SHELLCHECK, "dir", NoData)>>),
          Body("garbage", <<>>)}

\* hashlib.sha256(data).hexdigest(): the pinned digests are those of the
\* releases they were pinned from; every other body has a digest of its own,
\* different from all pinned ones (SHA-256 taken as collision-free).
Sha256(body) ==
    LET pinned == {k \in DOMAIN POSTFIX_SHA256 :
                     /\ POSTFIX_SHA256[k].sha256 # ""
                     /\ Release(POSTFIX_SHA256[k].postfix) = body}
    IN IF pinned # {}
       THEN POSTFIX_SHA256[CHOOSE k \in pinned : TRUE].sha256
       ELSE CASE body = MirrorDeb -> "d0-digest-of-the-mirror-package"
              [] body = ReleaseTar("evil") -> "d1-digest-of-a-replaced-tar"
              [] body.fmt = "deb" -> "d3-digest-of-another-package"
              [] OTHER -> "d4-digest-of-other-bytes"

\* ----------------------------------------------------------------- errors
Err(type, what, code, expected, got) ==
    [type |-> type, what |-> what, code |-> code,
     expected |-> expected, got |-> got]

NoErr == Err("none", "", 0, "", "")

\* http.HTTPStatus.OK
HTTP_OK == 200

\* Status codes a GET may end with: 200, a 2xx that urlopen hands back
\* unchanged, and a 4xx that urlopen itself raises as HTTPError.
StatusCodes == {HTTP_OK, 204, 404}

\* ---------------------------------------------------------------- download
\* download(url, sha256), given the response the GET to url receives.
\* Result: whether it raised, the error, the returned bytes, and whether the
\* digest was computed.
download_no_verify(code, body, sha256) ==
    IF code >= 400
    THEN [raised |-> TRUE, hashed |-> FALSE, data |-> NoBody,
          err |-> Err("HTTPError", "urlopen", code, "", "")]
    ELSE IF code # HTTP_OK
    THEN [raised |-> TRUE, hashed |-> FALSE, data |-> NoBody,
          err |-> Err("ValueError", "HTTP failure", code, "", "")]
    ELSE [raised |-> FALSE, hashed |-> TRUE, data |-> body, err |-> NoErr]

download_verify_always(code, body, sha256) ==
    IF code >= 400
    THEN [raised |-> TRUE, hashed |-> FALSE, data |-> NoBody,
          err |-> Err("HTTPError", "urlopen", code, "", "")]
    ELSE IF code # HTTP_OK
    THEN [raised |-> TRUE, hashed |-> FALSE, data |-> NoBody,
          err |-> Err("ValueError", "HTTP failure", code, "", "")]
    ELSE IF Sha256(body) # sha256
    THEN [raised |-> TRUE, hashed |-> TRUE, data |-> NoBody,
          err |-> Err("ValueError", "sha256 mismatch", 0,
                      sha256, Sha256(body))]
    ELSE [raised |-> FALSE, hashed |-> TRUE, data |-> body, err |-> NoErr]

download_any_status(code, body, sha256) ==
    IF code >= 400
    THEN [raised |-> TRUE, hashed |-> FALSE, data |-> NoBody,
          err |-> Err("HTTPError", "urlopen", code, "", "")]
    ELSE IF sha256 # "" /\ Sha256(body) # sha256
    THEN [raised |-> TRUE, hashed |-> TRUE, data |-> NoBody,
          err |-> Err("ValueError", "sha256 mismatch", 0,
                      sha256, Sha256(body))]
    ELSE [raised |-> FALSE, hashed |-> TRUE, data |-> body, err |-> NoErr]

download(code, body, sha256) ==
    IF code >= 400
    THEN [raised |-> TRUE, hashed |-> FALSE, data |-> NoBody,
          err |-> Err("HTTPError", "urlopen", code, "", "")]
    ELSE IF code # HTTP_OK
    THEN [raised |-> TRUE, hashed |-> FALSE, data |-> NoBody,
          err |-> Err("ValueError", "HTTP failure", code, "", "")]
    ELSE IF sha256 # "" /\ Sha256(body) # sha256
    THEN [raised |-> TRUE, hashed |-> TRUE, data |-> NoBody,
          err |-> Err("ValueError", "sha256 mismatch", 0,
                      sha256, Sha256(body))]
    ELSE [raised |-> FALSE, hashed |-> TRUE, data |-> body, err |-> NoErr]

\* ----------------------------------------------------------------- extract
\* Index of the first tar member the loop returns, 0 when it returns none:
\* info.isfile() and info.name.endswith('shellcheck').
TarMatch(entries) ==
    LET hits == {i \in 1..Len(entries) :
                   /\ entries[i].type = "file"
                   /\ EndsWith(entries[i].name, SHELLCHECK)}
    IN IF hits = {} THEN 0 ELSE CHOOSE i \in hits : \A j \in hits : i <= j

\* Index of the first zip member whose filename ends with '.exe', 0 if none.
ZipMatch(entries) ==
    LET hits == {i \in 1..Len(entries) : EndsWith(entries[i].name, DOT_EXE)}
    IN IF hits = {} THEN 0 ELSE CHOOSE i \in hits : \A j \in hits : i <= j

\* ZipFile.read(name): the member that name maps to in the archive's
\* name table, which is the last member carrying that name.
ZipRead(entries, name) ==
    LET named == {i \in 1..Len(entries) : entries[i].name = name}
    IN entries[CHOOSE i \in named : \A j \in named : j <= i].data

\* The strategy the tail of extract picks from the URL ("none": neither).
ArchiveStrategy(url) ==
    IF Contains(url, DOT_TAR_DOT) THEN "tar"
    ELSE IF EndsWith(url, DOT_ZIP) THEN "zip"
    ELSE "none"

\* The tail of extract (from `with io.BytesIO(data)` on): what it returns or
\* raises for the bytes it is given.
ExtractArchive(url, body) ==
    LET unreachable ==
            [raised |-> TRUE, data |-> NoData,
             err |-> Err("AssertionError", "unreachable", 0, "", "")]
    IN CASE ArchiveStrategy(url) = "tar" ->
              IF body.fmt # "tar"
              THEN [raised |-> TRUE, data |-> NoData,
                    err |-> Err("ReadError", "tarfile.open", 0, "", "")]
              ELSE IF TarMatch(body.entries) # 0
              THEN [raised |-> FALSE, err |-> NoErr,
                    data |-> body.entries[TarMatch(body.entries)].data]
              ELSE unreachable
         [] ArchiveStrategy(url) = "zip" ->
              IF body.fmt # "zip"
              THEN [raised |-> TRUE, data |-> NoData,
                    err |-> Err("BadZipFile", "zipfile.ZipFile", 0, "", "")]
              ELSE IF ZipMatch(body.entries) # 0
              THEN [raised |-> FALSE, err |-> NoErr,
                    data |-> ZipRead(body.entries,
                                     body.entries[ZipMatch(body.entries)].name)]
              ELSE unreachable
         [] OTHER -> unreachable

\* ------------------------------------------------------------ filesystem
\* f'/tmp/shellcheck-py-{int(time.time())}'
TmpDirName(t) == <<"/tmp/shellcheck-py-", t>>

TmpDirs == {TmpDirName(t) : t \in 0..MaxClock}

\* A temporary directory: whether it exists, the package file written into
\* it and the tree dpkg-deb unpacked into it.
AbsentDir == [exists |-> FALSE, pkg |-> NoBody, tree |-> <<>>]
EmptyDir == [exists |-> TRUE, pkg |-> NoBody, tree |-> <<>>]

\* os.mkdir(tmp_dir, 0o1777): raises FileExistsError on an existing path.
mkdir_exist_ok(dir) ==
    IF dir.exists
    THEN [raised |-> FALSE, dir |-> dir]
    ELSE [raised |-> FALSE, dir |-> EmptyDir]

mkdir(dir) ==
    IF dir.exists
    THEN [raised |-> TRUE, dir |-> dir]
    ELSE [raised |-> FALSE, dir |-> EmptyDir]

\* The member a path names in an unpacked tree (a later member replaces an
\* earlier one of the same name), 0 when nothing is there.  A link's target
\* is not part of the package: it dangles.
TreeLookup(tree, path) ==
    LET named == {i \in 1..Len(tree) : tree[i].name = path}
        last == IF named = {} THEN 0
                ELSE CHOOSE i \in named : \A j \in named : j <= i
    IN IF last # 0 /\ tree[last].type \in {"file", "dir"} THEN last ELSE 0

\* stat.S_IXUSR, stat.S_IXGRP, stat.S_IXOTH
S_IXUSR == 64
S_IXGRP == 8
S_IXOTH == 1

\* umask values of the building user: 0o022, 0o077.
Umasks == {18, 63}

\* Mode of a file that open(path, 'wb') creates: 0o666 & ~umask.
CreateMode(umask) == BitAnd(438, 511 - umask)

\* mode |= stat.S_IXUSR | stat.S_IXGRP | stat.S_IXOTH
executable_mode_owner_only(mode) == BitOr(mode, S_IXUSR)

executable_mode(mode) ==
    BitOr(mode, BitOr(S_IXUSR, BitOr(S_IXGRP, S_IXOTH)))

\* exe = 'shellcheck' if sys.platform != 'win32' else 'shellcheck.exe'
ExeNameAnyWindows(sys_platform) ==
    IF sys_platform \notin {"win32", "cygwin"}
    THEN "shellcheck" ELSE "shellcheck.exe"

ExeName(sys_platform) ==
    IF sys_platform # "win32" THEN "shellcheck" ELSE "shellcheck.exe"

File(name, bytes, mode) == [name |-> name, data |-> bytes, mode |-> mode]

NoBuildDir == [exists |-> FALSE, files |-> {}]

\* ------------------------------------------------------------------ state
VARIABLES
    clock,       \* the latest value int(time.time()) returned
    runs,        \* setup.py invocations started so far
    build_fs,    \* the directory build_temp names
    install_fs,  \* files of the directory install_scripts names
    tmp_fs,      \* the directories /tmp/shellcheck-py-<t>
    proc         \* each setup.py process: its position and its locals

vars == <<clock, runs, build_fs, install_fs, tmp_fs, proc>>

\* A process that is not running.  Beside the locals of the code it holds
\* what the process has done so far: the GETs it sent (gets), the status and
\* body it received (code, resp_body), whether it computed a digest
\* (hashed), the extraction strategies it applied (applied), whether this
\* call of extract created its temporary directory (made), whether it staged
\* a file (staged), and the tree it copied (copied, copy_src).
IdleProc ==
    [pc |-> "idle", cmd |-> "none", platform |-> <<"", "">>,
     url |-> <<>>, sha256 |-> "", code |-> 0, resp_body |-> NoBody,
     archive |-> NoBody, data |-> NoData, tmp_dir |-> TmpDirName(0),
     made |-> FALSE, rc |-> 0, err |-> NoErr, gets |-> 0, hashed |-> FALSE,
     applied |-> {}, staged |-> FALSE, outfiles |-> {}, copied |-> FALSE,
     copy_src |-> NoBuildDir]

Init ==
    /\ clock = 0
    /\ runs = 0
    /\ build_fs = NoBuildDir
    /\ install_fs = {}
    /\ tmp_fs = [d \in TmpDirs |-> AbsentDir]
    /\ proc = [p \in Procs |-> IdleProc]

Fail(p, e) == [proc[p] EXCEPT !.pc = "failed", !.err = e]

\* ------------------------------------------------------ setup.py, a build
\* A setup.py process starts: `build` runs fetch_binaries, `install` runs
\* the build and then install_shellcheck.  Invocations follow one another,
\* each taking the first free slot.
Start(p) ==
    /\ proc[p].pc = "idle"
    /\ \A q \in Procs : proc[q].pc = "idle" /\ p <= q
    /\ runs < MaxRuns
    /\ \E platform \in Platforms, cmd \in {"build", "install"} :
         proc' = [proc EXCEPT ![p] = [IdleProc EXCEPT !.pc = "resolve",
                                                      !.cmd = cmd,
                                                      !.platform = platform]]
    /\ runs' = runs + 1
    /\ UNCHANGED <<clock, build_fs, install_fs, tmp_fs>>

\* url, sha256 = get_download_url()
Resolve(p) ==
    /\ proc[p].pc = "resolve"
    /\ proc' = [proc EXCEPT ![p] =
         IF proc[p].platform \notin DOMAIN POSTFIX_SHA256
         THEN Fail(p, Err("KeyError", "POSTFIX_SHA256", 0, "", ""))
         ELSE [@ EXCEPT !.pc = "download",
                        !.url = get_download_url(proc[p].platform)[1],
                        !.sha256 = get_download_url(proc[p].platform)[2]]]
    /\ UNCHANGED <<clock, runs, build_fs, install_fs, tmp_fs>>

\* archive = download(url, sha256).  resp.read() is reached, and a body
\* received, only on status 200.
Download(p) ==
    /\ proc[p].pc = "download"
    /\ \E code \in StatusCodes :
       \E body \in IF code = HTTP_OK THEN ServerBodies ELSE {NoBody} :
         LET r == download(code, body, proc[p].sha256)
             got == [proc[p] EXCEPT !.gets = @ + 1, !.code = code,
                                    !.resp_body = body,
                                    !.hashed = r.hashed]
         IN proc' = [proc EXCEPT ![p] =
                IF r.raised
                THEN [got EXCEPT !.pc = "failed", !.err = r.err]
                ELSE [got EXCEPT !.pc = "extract", !.archive = r.data]]
    /\ UNCHANGED <<clock, runs, build_fs, install_fs, tmp_fs>>

\* ---------------------------------------------------------------- extract
\* if url.endswith('.deb'): tmp_dir, file_name, file_path, bin.
\* time.time() returns the second of the call, never an earlier one than
\* it returned before.
ExtractBegin(p) ==
    /\ proc[p].pc = "extract"
    /\ IF EndsWith(proc[p].url, DOT_DEB)
       THEN \E now \in clock..MaxClock :
              /\ clock' = now
              /\ proc' = [proc EXCEPT ![p] =
                   [@ EXCEPT !.pc = "deb_mkdir",
                             !.tmp_dir = TmpDirName(now),
                             !.applied = @ \cup {"deb"}]]
       ELSE /\ proc' = [proc EXCEPT ![p].pc = "archive"]
            /\ UNCHANGED clock
    /\ UNCHANGED <<runs, build_fs, install_fs, tmp_fs>>

\* os.mkdir(tmp_dir, 0o1777)
DebMkdir(p) ==
    /\ proc[p].pc = "deb_mkdir"
    /\ LET d == proc[p].tmp_dir
           r == mkdir(tmp_fs[d])
       IN /\ tmp_fs' = [tmp_fs EXCEPT ![d] = r.dir]
          /\ proc' = [proc EXCEPT ![p] =
               IF r.raised
               THEN Fail(p, Err("FileExistsError", "mkdir", 0, "", ""))
               ELSE [@ EXCEPT !.pc = "deb_write", !.made = TRUE]]
    /\ UNCHANGED <<clock, runs, build_fs, install_fs>>

\* with open(file_path, 'bw') as debf: debf.write(data).  The write may
\* raise OSError (a full disk), leaving a truncated file behind.
DebWrite(p) ==
    /\ proc[p].pc = "deb_write"
    /\ \E ok \in BOOLEAN :
         LET d == proc[p].tmp_dir
         IN IF ok
            THEN /\ tmp_fs' = [tmp_fs EXCEPT ![d].pkg = proc[p].archive]
                 /\ proc' = [proc EXCEPT ![p].pc = "deb_dpkg"]
            ELSE /\ tmp_fs' = [tmp_fs EXCEPT ![d].pkg = Body("garbage", <<>>)]
                 /\ proc' = [proc EXCEPT ![p] =
                      Fail(p, Err("OSError", "write", 0, "", ""))]
    /\ UNCHANGED <<clock, runs, build_fs, install_fs>>

\* res = subprocess.run(['dpkg-deb', '-x', file_path, tmp_dir]): unpacks a
\* package into tmp_dir and returns 0, returns 2 on anything else, and
\* raises FileNotFoundError on a machine without dpkg-deb.
DebDpkg(p) ==
    /\ proc[p].pc = "deb_dpkg"
    /\ \E present \in BOOLEAN :
         LET d == proc[p].tmp_dir
         IN IF ~present
            THEN /\ proc' = [proc EXCEPT ![p] =
                      Fail(p, Err("FileNotFoundError", "dpkg-deb", 0, "", ""))]
                 /\ UNCHANGED tmp_fs
            ELSE IF tmp_fs[d].pkg.fmt = "deb"
            THEN /\ tmp_fs' = [tmp_fs EXCEPT ![d].tree = tmp_fs[d].pkg.entries]
                 /\ proc' = [proc EXCEPT ![p] = [@ EXCEPT !.pc = "deb_check",
                                                          !.rc = 0]]
            ELSE /\ proc' = [proc EXCEPT ![p] = [@ EXCEPT !.pc = "deb_check",
                                                          !.rc = 2]]
                 /\ UNCHANGED tmp_fs
    /\ UNCHANGED <<clock, runs, build_fs, install_fs>>

\* if res.returncode == 0 and os.path.exists(bin): otherwise control leaves
\* the `if url.endswith('.deb')` block and goes on to the BytesIO block.
DebCheck(p) ==
    /\ proc[p].pc = "deb_check"
    /\ proc' = [proc EXCEPT ![p].pc =
         IF /\ proc[p].rc = 0
            /\ TreeLookup(tmp_fs[proc[p].tmp_dir].tree, USR_BIN_SHELLCHECK) # 0
         THEN "deb_read" ELSE "archive"]
    /\ UNCHANGED <<clock, runs, build_fs, install_fs, tmp_fs>>

\* with open(bin, 'br') as binf: data = binf.read()
DebRead(p) ==
    /\ proc[p].pc = "deb_read"
    /\ LET tree == tmp_fs[proc[p].tmp_dir].tree
           i == TreeLookup(tree, USR_BIN_SHELLCHECK)
       IN proc' = [proc EXCEPT ![p] =
            IF i = 0
            THEN Fail(p, Err("FileNotFoundError", "open", 0, "", ""))
            ELSE IF tree[i].type = "dir"
            THEN Fail(p, Err("IsADirectoryError", "open", 0, "", ""))
            ELSE [@ EXCEPT !.pc = "deb_rm", !.data = tree[i].data]]
    /\ UNCHANGED <<clock, runs, build_fs, install_fs, tmp_fs>>

\* subprocess.run(['rm', '-r', tmp_dir]); return data
DebRm(p) ==
    /\ proc[p].pc = "deb_rm"
    /\ tmp_fs' = [tmp_fs EXCEPT ![proc[p].tmp_dir] = AbsentDir]
    /\ proc' = [proc EXCEPT ![p].pc = "save"]
    /\ UNCHANGED <<clock, runs, build_fs, install_fs>>

\* with io.BytesIO(data) as bio: ... raise AssertionError(f'unreachable {url}')
Archive(p) ==
    /\ proc[p].pc = "archive"
    /\ LET r == ExtractArchive(proc[p].url, proc[p].archive)
           s == ArchiveStrategy(proc[p].url)
           on == [proc[p] EXCEPT !.applied =
                    IF s = "none" THEN @ ELSE @ \cup {s}]
       IN proc' = [proc EXCEPT ![p] =
            IF r.raised
            THEN [on EXCEPT !.pc = "failed", !.err = r.err]
            ELSE [on EXCEPT !.pc = "save", !.data = r.data]]
    /\ UNCHANGED <<clock, runs, build_fs, install_fs, tmp_fs>>

\* ----------------------------------------------------- staging, installing
\* save_executable(data, self.build_temp), the last line of
\* fetch_binaries.run.  os.makedirs raises FileExistsError on an existing
\* directory; the write may raise OSError after open created the file.
SaveExecutable(p) ==
    /\ proc[p].pc = "save"
    /\ \E umask \in Umasks, ok \in BOOLEAN :
         LET exe == ExeName(proc[p].platform[1])
         IN IF build_fs.exists
            THEN /\ proc' = [proc EXCEPT ![p] =
                      Fail(p, Err("FileExistsError", "makedirs", 0, "", ""))]
                 /\ UNCHANGED build_fs
            ELSE IF ~ok
            THEN /\ build_fs' = [exists |-> TRUE,
                                 files |-> {File(exe, NoData,
                                                 CreateMode(umask))}]
                 /\ proc' = [proc EXCEPT ![p] =
                      Fail(p, Err("OSError", "write", 0, "", ""))]
            ELSE /\ build_fs' =
                      [exists |-> TRUE,
                       files |-> {File(exe, proc[p].data,
                                       executable_mode(CreateMode(umask)))}]
                 /\ proc' = [proc EXCEPT ![p] =
                      [@ EXCEPT !.staged = TRUE,
                                !.pc = IF proc[p].cmd = "install"
                                       THEN "install" ELSE "done"]]
    /\ UNCHANGED <<clock, runs, install_fs, tmp_fs>>

\* install_shellcheck.run: self.outfiles = self.copy_tree(self.build_dir,
\* self.install_dir).  copy_tree raises when build_dir is no directory,
\* replaces files of the same name and keeps each file's mode.
InstallShellcheck(p) ==
    /\ proc[p].pc = "install"
    /\ IF ~build_fs.exists
       THEN /\ proc' = [proc EXCEPT ![p] =
                 Fail(p, Err("DistutilsFileError", "copy_tree", 0, "", ""))]
            /\ UNCHANGED install_fs
       ELSE /\ install_fs' =
                 {f \in install_fs :
                    \A g \in build_fs.files : g.name # f.name}
                 \cup build_fs.files
            /\ proc' = [proc EXCEPT ![p] =
                 [@ EXCEPT !.pc = "done", !.copied = TRUE,
                           !.copy_src = build_fs,
                           !.outfiles = {g.name : g \in build_fs.files}]]
    /\ UNCHANGED <<clock, runs, build_fs, tmp_fs>>

\* The setup.py process ends, with or without a traceback.
Exit(p) ==
    /\ proc[p].pc \in {"done", "failed"}
    /\ proc' = [proc EXCEPT ![p] = IdleProc]
    /\ UNCHANGED <<clock, runs, build_fs, install_fs, tmp_fs>>

ExtractStep(p) ==
    \/ ExtractBegin(p)
    \/ DebMkdir(p)
    \/ DebWrite(p)
    \/ DebDpkg(p)
    \/ DebCheck(p)
    \/ DebRead(p)
    \/ DebRm(p)
    \/ Archive(p)

Next ==
    \E p \in Procs :
         \/ Start(p)
         \/ Resolve(p)
         \/ Download(p)
         \/ ExtractStep(p)
         \/ SaveExecutable(p)
         \/ InstallShellcheck(p)
         \/ Exit(p)

Spec == Init /\ [][Next]_vars

\* ------------------------------------------- extract as a function
\* Names, members and archives that extract is applied to on its own.
EntryNames == {N_README, USR_BIN_SHELLCHECK, N_EXE}

Entries ==
    {Entry(n, "file", d) : n \in EntryNames, d \in {"A", "B"}}
    \cup {Entry(n, t, NoData) : n \in EntryNames, t \in {"dir", "link"}}

SeqsUpTo(S, n) == UNION {[1..k -> S] : k \in 0..n}

\* A tar or a package holds files, directories and links; the members of a
\* zip that the loop looks at by name are files.
ExtractBodies ==
    {Body(f, es) : f \in {"tar", "deb"},
                   es \in SeqsUpTo(Entries, MaxEntries)}
    \cup {Body("zip", es) :
            es \in SeqsUpTo({e \in Entries : e.type = "file"}, MaxEntries)}
    \cup {Body("garbage", <<>>)}

\* The URLs of the table, and URLs of other shapes: 'a.tar.deb',
\* 'a.tar.zip', 'a.txt'.
ExtractUrls ==
    {get_download_url(k)[1] : k \in DOMAIN POSTFIX_SHA256}
    \cup {<<"a">> \o DOT_TAR_DOT \o <<"d", "e", "b">>,
          <<"a">> \o DOT_TAR_DOT \o <<"z", "i", "p">>,
          <<"a", ".", "t", "x", "t">>}

\* A process about to call extract(url, archive).
AtExtract(url, body) ==
    [IdleProc EXCEPT !.pc = "extract", !.cmd = "build", !.url = url,
                     !.code = HTTP_OK, !.gets = 1, !.hashed = TRUE,
                     !.resp_body = body, !.archive = body]

\* One process calls extract on any URL and any archive.
InitExtract ==
    /\ clock = 0
    /\ runs = 1
    /\ build_fs = NoBuildDir
    /\ install_fs = {}
    /\ tmp_fs = [d \in TmpDirs |-> AbsentDir]
    /\ \E url \in ExtractUrls, body \in ExtractBodies :
         proc = [p \in Procs |->
                   IF p = 1 THEN AtExtract(url, body) ELSE IdleProc]

\* Every process is a build on ('linux', 'mips64') that has downloaded the
\* mirror's answer and calls extract, at the same time as the others.
InitConcurrent ==
    /\ clock = 0
    /\ runs = Cardinality(Procs)
    /\ build_fs = NoBuildDir
    /\ install_fs = {}
    /\ tmp_fs = [d \in TmpDirs |-> AbsentDir]
    /\ proc \in [Procs -> {[AtExtract(PF_mips64, body)
                              EXCEPT !.platform = <<"linux", "mips64">>] :
                           body \in ServerBodies}]

NextExtract == \E p \in Procs : ExtractStep(p)

SpecExtract == InitExtract /\ [][NextExtract]_vars

SpecConcurrent == InitConcurrent /\ [][NextExtract]_vars

\* ------------------------------------------------------------------ claims
\* Positions at which a process's call of extract is over.
ExtractOver == {"save", "install", "done", "failed"}

\* Positions between a successful os.mkdir and the rm -r.
HoldsTmpDir == {"deb_write", "deb_dpkg", "deb_check", "deb_read", "deb_rm"}

Executable(mode) ==
    BitAnd(mode, S_IXUSR + S_IXGRP + S_IXOTH) = S_IXUSR + S_IXGRP + S_IXOTH

\* C1: a build whose descriptor pins a digest and whose fetched bytes hash
\* to something else has failed in download with the mismatch error: it
\* applied no extraction strategy, extracted nothing, staged and copied
\* nothing.
C1_MismatchNeverStaged ==
    \A p \in Procs :
      LET s == proc[p]
      IN (/\ s.gets > 0 /\ s.code = HTTP_OK
          /\ s.sha256 # "" /\ Sha256(s.resp_body) # s.sha256)
         => /\ s.pc = "failed"
            /\ s.err.what = "sha256 mismatch"
            /\ s.archive = NoBody
            /\ s.applied = {}
            /\ s.data = NoData
            /\ ~s.staged
            /\ ~s.copied

C1_Witness ==
    \E p \in Procs :
      /\ proc[p].gets > 0 /\ proc[p].code = HTTP_OK
      /\ proc[p].sha256 # ""
      /\ Sha256(proc[p].resp_body) # proc[p].sha256
      /\ proc[p].pc = "failed"

\* C2: on status 200, download returns the body unchanged exactly when the
\* expected hash is empty or equals the body's digest; otherwise it raises
\* an error carrying the expected and the computed digest.
C2_DownloadReturnsIffVerified ==
    \A p \in Procs :
      LET s == proc[p]
          returned == s.archive = s.resp_body
      IN (s.gets > 0 /\ s.code = HTTP_OK)
         => /\ returned <=> (s.sha256 = "" \/ s.sha256 = Sha256(s.resp_body))
            /\ ~returned => /\ s.pc = "failed"
                            /\ s.err.what = "sha256 mismatch"
                            /\ s.err.expected = s.sha256
                            /\ s.err.got = Sha256(s.resp_body)

C2_Witness ==
    \E p \in Procs :
      /\ proc[p].gets > 0 /\ proc[p].code = HTTP_OK
      /\ proc[p].sha256 = ""
      /\ proc[p].resp_body = Body("garbage", <<>>)
      /\ proc[p].archive = proc[p].resp_body

\* C3: once a call of extract that created its temporary directory is
\* over, whatever its outcome, that directory is gone.
C3_TmpDirRemovedOnEveryOutcome ==
    \A p \in Procs :
      (proc[p].made /\ proc[p].pc \in ExtractOver)
        => ~tmp_fs[proc[p].tmp_dir].exists

\* C4: the staging step of every build succeeds in creating the build
\* path, also when an earlier build used the same path, and a build that
\* staged leaves its own executable there.
C4_EveryStagingSucceeds ==
    \A p \in Procs :
      /\ ~(/\ proc[p].pc = "failed"
           /\ proc[p].err.type = "FileExistsError"
           /\ proc[p].err.what = "makedirs")
      /\ proc[p].staged
           => \E f \in build_fs.files : /\ f.data = proc[p].data
                                        /\ build_fs.files = {f}

C7_ExeOnEveryWindowsDescriptor ==
    \A p \in Procs :
      proc[p].staged
        => \A f \in build_fs.files :
             f.name = "shellcheck.exe"
               <=> POSTFIX_SHA256[proc[p].platform]
                     = POSTFIX_SHA256[<<"win32", "AMD64">>]

\* C7 amended: the staged file is named 'shellcheck.exe' exactly when
\* sys.platform is 'win32', and 'shellcheck' on every other platform,
\* ('cygwin', 'x86_64') included.
C7_ExeOnWin32Only ==
    \A p \in Procs :
      proc[p].staged
        => \A f \in build_fs.files :
             /\ f.name \in {"shellcheck", "shellcheck.exe"}
             /\ f.name = "shellcheck.exe" <=> proc[p].platform[1] = "win32"

C7_Witness ==
    \E p \in Procs :
      /\ proc[p].staged
      /\ proc[p].platform = <<"cygwin", "x86_64">>
      /\ \E f \in build_fs.files : f.name = "shellcheck"

\* C8: a build sends one GET and no more; when the status is not 200 the
\* build has failed with an error carrying that status, and has hashed,
\* extracted and staged nothing.
C8_OneGetNoRetry ==
    \A p \in Procs :
      LET s == proc[p]
      IN /\ s.gets <= 1
         /\ s.pc \in {"extract", "archive", "save", "install", "done"}
              \cup {"deb_mkdir"} \cup HoldsTmpDir => s.gets = 1
         /\ (s.gets = 1 /\ s.code # HTTP_OK)
              => /\ s.pc = "failed"
                 /\ s.err.code = s.code
                 /\ ~s.hashed
                 /\ s.archive = NoBody
                 /\ s.applied = {}
                 /\ s.data = NoData
                 /\ ~s.staged

C8_Witness ==
    \E p \in Procs :
      /\ proc[p].gets = 1
      /\ proc[p].code = 204
      /\ proc[p].pc = "failed"
      /\ proc[p].err.code = 204

\* C9: the tree that install_shellcheck copied existed, held exactly one
\* file, executable by owner, group and others, and the copying process had
\* completed its staging step before.
C9_CopyOnlyOfStagedExecutable ==
    \A p \in Procs :
      proc[p].copied
        => /\ proc[p].staged
           /\ proc[p].copy_src.exists
           /\ Cardinality(proc[p].copy_src.files) = 1
           /\ \A f \in proc[p].copy_src.files : Executable(f.mode)
           /\ proc[p].outfiles = {f.name : f \in proc[p].copy_src.files}

C9_Witness ==
    \E p \in Procs :
      /\ proc[p].copied
      /\ proc[p].copy_src.files \subseteq install_fs

\* C10: two builds in the .deb strategy that computed the same directory
\* name never both get past os.mkdir: the directory has one creator at a
\* time, and the other build fails at directory creation.
C10_SameNameOneCreator ==
    \A p, q \in Procs :
      (/\ p # q
       /\ proc[p].pc \in HoldsTmpDir
       /\ proc[q].pc \in HoldsTmpDir)
        => proc[p].tmp_dir # proc[q].tmp_dir

\* Two concurrent builds computed the same name; one holds the directory
\* and the other failed at os.mkdir.
C10_Witness ==
    \E p, q \in Procs :
      /\ p # q
      /\ proc[p].tmp_dir = proc[q].tmp_dir
      /\ proc[p].pc \in HoldsTmpDir
      /\ proc[q].pc = "failed"
      /\ proc[q].err.type = "FileExistsError"
      /\ proc[q].err.what = "mkdir"

=============================================================================
